---- MODULE Spec2Model ----
(***************************************************************************)
(* Media uploader backend (src/server.js): an Express application with a   *)
(* CORS layer and four routes (GET /, POST /upload, DELETE /files/:id,     *)
(* GET /files) in front of the Cloudinary media store.                     *)
(*                                                                         *)
(* The service keeps no state of its own.  The state of the model is the   *)
(* remote store, the handler activations that are suspended at an `await`, *)
(* and the response most recently written to a client.  One action is one  *)
(* run of JavaScript between two suspension points: Receive is the         *)
(* synchronous part of a request (CORS check, routing, the handler up to   *)
(* its first await); every other action is the store settling one call     *)
(* together with the continuation of the handler that awaited it.          *)
(***************************************************************************)
EXTENDS Integers, Sequences, FiniteSets, Bags, TLC

(***************************************************************************)
(* Bounds of the model.                                                    *)
(***************************************************************************)
\* number of distinct values `${Date.now()}-${random}` can take
NumTags == 1
\* number of handler activations that may be suspended at the same time
MaxInFlight == 2
\* largest max_results a client sends
MaxN == 2

(***************************************************************************)
(* Values.                                                                 *)
(***************************************************************************)
\* a JavaScript `undefined` where a string is expected
Undefined == "<undefined>"

\* an optional value: <<>> is `undefined`, <<v>> is v
Absent == << >>
Some(v) == << v >>

\* server.js:19-24
allowedOrigins ==
    { "https://jmandmj.vercel.app",
      "https://media-uploader-backend.vercel.app",
      "http://localhost:3001",
      "http://localhost:5173" }

\* a request without an Origin header: req.headers.origin is undefined
NoOrigin == ""

\* the Origin headers clients send
Origins == allowedOrigins \cup { NoOrigin, "https://evil.example" }

\* server.js:70, 118
Folder == "wedding-memories"

\* server.js:73: the values of `${Date.now()}-${Math.random()...}`
Tags == 1 .. NumTags

\* server.js:112
DefaultMaxResults == 10

\* the files clients upload (req.file): declared MIME type, the kind the
\* store detects from the content, the length of the buffer
Payloads ==
    { [mimetype |-> "image/jpeg",      kind |-> "image", size |-> 2],
      [mimetype |-> "video/mp4",       kind |-> "video", size |-> 3],
      [mimetype |-> "application/zip", kind |-> "raw",   size |-> 1] }

\* a public id as the store reports it: <<folder, name>> is "folder/name"
FolderIds == { <<Folder, t>> : t \in Tags }

\* assets the store may hold under the folder when the process starts
\* (uploaded by an earlier run of the service; name 0 is no tag of this run)
InitialAssets ==
    { [resource_type |-> "image", public_id |-> <<Folder, 0>>, bytes |-> 5],
      [resource_type |-> "video", public_id |-> <<Folder, 0>>, bytes |-> 7] }

\* the :cloudinaryId(*) values clients send: the ids uploads returned, and
\* one id no upload returned
DeleteIds == FolderIds \cup { <<"lost+found", 1>> }

\* the requests clients send, after routing
Requests ==
    { [route |-> "health", file |-> Absent, cloudinaryId |-> Absent,
       max_results |-> Absent] }
    \cup
    { [route |-> "upload", file |-> f, cloudinaryId |-> Absent,
       max_results |-> Absent] : f \in {Absent} \cup { Some(p) : p \in Payloads } }
    \cup
    { [route |-> "delete", file |-> Absent, cloudinaryId |-> id,
       max_results |-> Absent] : id \in DeleteIds }
    \cup
    { [route |-> "list", file |-> Absent, cloudinaryId |-> Absent,
       max_results |-> m] : m \in {Absent} \cup { Some(n) : n \in 1 .. MaxN } }

(***************************************************************************)
(* Responses.                                                              *)
(***************************************************************************)
\* res.status(status).json(body)
Json(status, body) ==
    [status |-> status, contentType |-> "application/json", body |-> body]

\* JSON.stringify drops the properties whose value is undefined
JsonObject(o) ==
    [k \in { k \in DOMAIN o : o[k] # Undefined } |-> o[k]]

\* no response written yet
NoResponse == [status |-> 0, contentType |-> "", body |-> << >>]

\* err.message: undefined when the rejection value has no such property
MessageOf(err) ==
    IF "message" \in DOMAIN err THEN err.message ELSE Undefined

(***************************************************************************)
(* The CORS layer, server.js:26-44.                                        *)
(***************************************************************************)
\* mutant of CorsOrigin: the allow-list is never consulted
CorsOrigin_AllowAny(origin) == [err |-> Absent, allow |-> TRUE]

\* the `origin` function: the arguments it passes to callback(err, allow)
CorsOrigin(origin) ==
    IF origin = NoOrigin
    THEN [err |-> Absent, allow |-> TRUE]
    ELSE IF origin \in allowedOrigins
         THEN [err |-> Absent, allow |-> TRUE]
         ELSE [err |-> Some(<<"Not allowed by CORS: ", origin>>), allow |-> FALSE]

\* cors passes the error to next(err); server.js registers no error-handling
\* middleware, so Express' default handler answers: 500 with an HTML page
DefaultErrorHandler(err) ==
    [status |-> 500, contentType |-> "text/html", body |-> [html |-> err]]

(***************************************************************************)
(* The remote media store, as the Cloudinary SDK calls of server.js reach  *)
(* it.  An asset is identified by its resource kind together with its      *)
(* public id; `store` is the set of assets it holds.                       *)
(***************************************************************************)
\* server.js:65-66: "data:" + mimetype + ";base64," + b64
DataURI(file) ==
    [mediatype |-> file.mimetype,
     base64    |-> [kind |-> file.kind, size |-> file.size]]

\* server.js:69-73: the options of the upload call
UploadOptions(tag) ==
    [resource_type |-> "auto", folder |-> Folder, use_filename |-> TRUE,
     unique_filename |-> FALSE, public_id |-> tag]

\* the asset an upload call creates: the kind is detected from the content
\* (resource_type "auto"), the public id is folder "/" public_id
UploadedAsset(dataURI, options) ==
    [resource_type |-> dataURI.base64.kind,
     public_id     |-> <<options.folder, options.public_id>>,
     bytes         |-> dataURI.base64.size]

SecureUrl(asset) == <<"https://", asset.resource_type, asset.public_id>>

\* what the store reports about an asset (result of upload, resource, and
\* the entries of resources)
Describe(asset) ==
    [secure_url    |-> SecureUrl(asset),
     public_id     |-> asset.public_id,
     resource_type |-> asset.resource_type,
     bytes         |-> asset.bytes]

\* server.js:68: the store after a successful upload; an asset of the same
\* kind and public id is overwritten
StoreAfterUpload(st, asset) ==
    { a \in st : ~(a.resource_type = asset.resource_type
                   /\ a.public_id = asset.public_id) } \cup { asset }

\* server.js:93: cloudinary.api.resource(cloudinaryId) is called with no
\* options object
NoOptions == << >>

\* the kind a lookup is scoped to: the resource_type option, and "image"
\* when the caller passes none

ResourceTypeOf(options) ==
    IF "resource_type" \in DOMAIN options THEN options.resource_type ELSE "image"

\* the assets a lookup call finds (none or one)
ApiResource(st, public_id, options) ==
    { a \in st : a.resource_type = ResourceTypeOf(options)
                 /\ a.public_id = public_id }

\* mutant of DestroyOptions: the kind the lookup returned is not passed on
DestroyOptions_FixedKind(resourceType) == [resource_type |-> "video"]

\* server.js:97: the options of the destroy call
DestroyOptions(resourceType) == [resource_type |-> resourceType]

\* the store after a destroy call (which resolves also when nothing matched)
StoreAfterDestroy(st, public_id, options) ==
    { a \in st : ~(a.resource_type = options.resource_type
                   /\ a.public_id = public_id) }

\* mutant of MaxResults: the query parameter is not read
MaxResults_Ignored(query) == DefaultMaxResults

\* server.js:112: const { max_results = 10 } = req.query
MaxResults(query) ==
    IF query.max_results = Absent THEN DefaultMaxResults ELSE query.max_results[1]

\* server.js:115-120 and 123-128: the options of a listing query
ListOptions(kind, max_results) ==
    [type |-> "upload", resource_type |-> kind, prefix |-> Folder,
     max_results |-> max_results]

Min(a, b) == IF a <= b THEN a ELSE b

\* the assets a listing query matches
Matching(st, options) ==
    { a \in st : a.resource_type = options.resource_type
                 /\ a.public_id[1] = options.prefix }

RECURSIVE SeqOf(_)
\* a set of assets of one kind and folder as a list, by name
SeqOf(S) ==
    IF S = {} THEN << >>
    ELSE LET a == CHOOSE x \in S : \A y \in S : x.public_id[2] <= y.public_id[2]
         IN  <<Describe(a)>> \o SeqOf(S \ {a})

\* the `resources` lists a listing query can resolve with: at most
\* max_results of the matching assets
ApiResources(st, options) ==
    LET all == Matching(st, options)
        n   == Min(options.max_results, Cardinality(all))
    IN  { SeqOf(S) : S \in { T \in SUBSET all : Cardinality(T) = n } }

\* the values the uploader API (upload, destroy) rejects with: the error
\* object of the store's answer
UploaderRejections ==
    { [message |-> "Invalid Signature", name |-> "Error", http_code |-> 401] }

\* the values the admin API (resource, resources) rejects with: an Error
\* when the transport fails, and the store's whole answer
\* { error: { message, http_code } } when the store answers with an error
ApiFaults ==
    { [message |-> "socket hang up"],
      [error |-> [message |-> "Rate Limit Exceeded", http_code |-> 420]] }

NotFound(public_id) ==
    [error |-> [message |-> "Resource not found", id |-> public_id,
                http_code |-> 404]]

(***************************************************************************)
(* The route handlers' own code.                                           *)
(***************************************************************************)
\* server.js:52-54
HealthResponse == Json(200, [message |-> "Media uploader backend is running!"])

\* mutant of NoFileResponse: the status is not set
NoFileResponse_Status200 == Json(200, [error |-> "No file uploaded"])

\* server.js:62
NoFileResponse == Json(400, [error |-> "No file uploaded"])

\* server.js:76-80
UploadResponse(result) ==
    Json(200, [message   |-> "Upload successful",
               url       |-> result.secure_url,
               public_id |-> result.public_id])

\* mutant of ErrorResponse: the store's message is replaced
ErrorResponse_Generic(err) == Json(500, [error |-> "Internal Server Error"])

\* server.js:81-84 and 153-156: res.status(500).json({ error: err.message })
ErrorResponse(err) == Json(500, JsonObject([error |-> MessageOf(err)]))

\* server.js:99
DeleteResponse == Json(200, [message |-> "File deleted successfully from Cloudinary"])

\* server.js:100-106
DeleteErrorResponse(err) ==
    Json(500, JsonObject([error   |-> "Failed to delete file from Cloudinary",
                          details |-> MessageOf(err)]))

\* server.js:132-143: the projection of one resource (the properties the
\* claims read)
FileOf(file) ==
    [url           |-> file.secure_url,
     public_id     |-> file.public_id,
     resource_type |-> file.resource_type,
     size          |-> file.bytes]

\* server.js:130-143
Files(images, videos) ==
    LET resources == images \o videos
    IN  [i \in 1 .. Len(resources) |-> FileOf(resources[i])]

RECURSIVE Reduce(_, _)
\* server.js:146: files.reduce((sum, f) => sum + f.size, 0), left to right
Reduce(sum, files) ==
    IF files = << >> THEN sum
    ELSE Reduce(sum + Head(files).size, Tail(files))

\* mutant of TotalSize: the entries are counted, not their sizes added
TotalSize_Count(files) == Len(files)

TotalSize(files) == Reduce(0, files)

\* server.js:145-152
ListResponse(images, videos) ==
    LET files == Files(images, videos)
    IN  Json(200, [files      |-> files,
                   totalFiles |-> Len(files),
                   totalSize  |-> TotalSize(files)])

(***************************************************************************)
(* State.                                                                  *)
(***************************************************************************)
VARIABLES
    store,      \* the assets the remote store holds
    inflight,   \* the bag of handler activations suspended at an await
    sent,       \* the response the last step wrote (with the activation it
                \* ended), Nothing when the step wrote none
    received,   \* the Origin header and route of the request the last step
                \* received, NoRequest when the step received none
    generated,  \* history: tag -> how many upload calls were given it (0, 1, many)
    deletedOK   \* history: the ids a DELETE has answered with success for

vars == <<store, inflight, sent, received, generated, deletedOK>>

\* one call to the store as an activation records it: outcome is "pending"
\* while it is awaited, then "resolved" or "rejected" with the value;
\* `present` is history: whether the store held an asset with the call's
\* public id, of any kind, when it served the call
Call(op, args) ==
    [op |-> op, args |-> args, outcome |-> "pending", value |-> Absent,
     present |-> FALSE]

\* the calls with the pending (last) one settled
Settle(calls, outcome, value, present) ==
    [calls EXCEPT ![Len(calls)] =
        [@ EXCEPT !.outcome = outcome, !.value = Some(value), !.present = present]]

\* a handler activation: the request, where it is suspended, the values of
\* its locals (the generated public_id, images.resources), the calls it
\* issued; `seen` is history, kept for listings: deletedOK when the request
\* was received
Activation(req, pc, tag, images, calls) ==
    [route |-> req.route, file |-> req.file, cloudinaryId |-> req.cloudinaryId,
     max_results |-> req.max_results,
     pc |-> pc, tag |-> tag, images |-> images, calls |-> calls,
     seen |-> IF req.route = "list" THEN deletedOK ELSE {}]

Idle ==
    [route |-> "idle", file |-> Absent, cloudinaryId |-> Absent,
     max_results |-> Absent,
     pc |-> "idle", tag |-> 0, images |-> << >>, calls |-> << >>,
     seen |-> {}]

\* the response `resp` ends activation `act`; handled: a route handler ran;
\* `deleted` is history, kept for listings: deletedOK when it was written
Sent(act, handled, resp) ==
    [act |-> act, handled |-> handled, resp |-> resp,
     deleted |-> IF act.route = "list" THEN deletedOK ELSE {}]

Nothing == [act |-> Idle, handled |-> FALSE, resp |-> NoResponse, deleted |-> {}]

NoRequest == [origin |-> NoOrigin, route |-> "none"]

Init ==
    /\ store \in { {}, InitialAssets }
    /\ inflight = EmptyBag
    /\ sent = Nothing
    /\ received = NoRequest
    /\ generated = [t \in Tags |-> 0]
    /\ deletedOK = {}

\* the handler suspends at an await, having written no response
Suspend(act) ==
    /\ BagCardinality(inflight) < MaxInFlight
    /\ inflight' = inflight (+) SetToBag({act})
    /\ sent' = Nothing

\* the awaited call of activation a settles and its handler suspends again
Resume(a, act) ==
    /\ inflight' = (inflight (-) SetToBag({a})) (+) SetToBag({act})
    /\ sent' = Nothing
    /\ received' = NoRequest

\* the awaited call of activation a settles and its handler returns after
\* res.json(resp); act is its final state
Respond(a, act, resp) ==
    /\ inflight' = inflight (-) SetToBag({a})
    /\ sent' = Sent(act, TRUE, resp)
    /\ received' = NoRequest

\* activation a when its pending call settles
Settled(a, pc, outcome, value, present) ==
    [a EXCEPT !.pc = pc, !.calls = Settle(@, outcome, value, present)]

\* the activations suspended at pc
Awaiting(pc) == { a \in BagToSet(inflight) : a.pc = pc }

\* history: whether the store holds an asset with this public id, of any kind
Present(public_id) == \E x \in store : x.public_id = public_id

(***************************************************************************)
(* Receive: the synchronous part of one request.                           *)
(***************************************************************************)
\* server.js:52-54
Health(req) ==
    /\ sent' = Sent(Activation(req, "done", 0, << >>, << >>), TRUE, HealthResponse)
    /\ UNCHANGED <<store, inflight, generated, deletedOK>>

\* server.js:59-74: up to the await of the upload call
Upload(req) ==
    IF req.file = Absent
    THEN /\ sent' = Sent(Activation(req, "done", 0, << >>, << >>), TRUE,
                         NoFileResponse)
         /\ UNCHANGED <<store, inflight, generated, deletedOK>>
    ELSE \E tag \in Tags :
         /\ Suspend(Activation(req, "upload", tag, << >>,
                <<Call("upload", [file    |-> DataURI(req.file[1]),
                                  options |-> UploadOptions(tag)])>>))
         /\ generated' = [generated EXCEPT ![tag] = Min(2, @ + 1)]
         /\ UNCHANGED <<store, deletedOK>>

\* server.js:88-93: up to the await of the lookup call
Delete(req) ==
    /\ Suspend(Activation(req, "resource", 0, << >>,
           <<Call("resource", [public_id |-> req.cloudinaryId,
                               options   |-> NoOptions])>>))
    /\ UNCHANGED <<store, generated, deletedOK>>

\* server.js:110-120: up to the await of the image query
List(req) ==
    /\ Suspend(Activation(req, "images", 0, << >>,
           <<Call("resources", ListOptions("image", MaxResults(req)))>>))
    /\ UNCHANGED <<store, generated, deletedOK>>

\* server.js:26-44, then the router
Receive(origin, req) ==
    /\ received' = [origin |-> origin, route |-> req.route]
    /\ LET cb == CorsOrigin(origin) IN
       IF cb.err # Absent \/ ~cb.allow
       THEN /\ sent' = Sent(Activation(req, "rejected", 0, << >>, << >>), FALSE,
                            DefaultErrorHandler(cb.err))
            /\ UNCHANGED <<store, inflight, generated, deletedOK>>
       ELSE CASE req.route = "health" -> Health(req)
              [] req.route = "upload" -> Upload(req)
              [] req.route = "delete" -> Delete(req)
              [] req.route = "list"   -> List(req)

(***************************************************************************)
(* The store settles the upload call; server.js:68-84.                     *)
(***************************************************************************)
UploadResolved(a) ==
    /\ a \in Awaiting("upload")
    /\ LET call   == a.calls[1]
           asset  == UploadedAsset(call.args.file, call.args.options)
           result == Describe(asset)
       IN  /\ store' = StoreAfterUpload(store, asset)
           /\ Respond(a, Settled(a, "done", "resolved", result,
                                 Present(asset.public_id)),
                      UploadResponse(result))
    /\ UNCHANGED <<generated, deletedOK>>

UploadRejected(a, err) ==
    /\ a \in Awaiting("upload")
    /\ err \in UploaderRejections
    /\ Respond(a, Settled(a, "done", "rejected", err, FALSE), ErrorResponse(err))
    /\ UNCHANGED <<store, generated, deletedOK>>

(***************************************************************************)
(* The store settles the lookup call; server.js:93-97 and 100-106.         *)
(***************************************************************************)
ResourceResolved(a) ==
    /\ a \in Awaiting("resource")
    /\ LET call  == a.calls[1]
           found == ApiResource(store, call.args.public_id, call.args.options)
       IN  /\ found # {}
           /\ LET resource     == Describe(CHOOSE x \in found : TRUE)
                  resourceType == resource.resource_type
                  act == Settled(a, "destroy", "resolved", resource,
                                 Present(call.args.public_id))
              IN  Resume(a, [act EXCEPT !.calls = Append(@,
                                Call("destroy",
                                     [public_id |-> act.cloudinaryId,
                                      options   |-> DestroyOptions(resourceType)]))])
    /\ UNCHANGED <<store, generated, deletedOK>>

ResourceRejected(a, err) ==
    /\ a \in Awaiting("resource")
    /\ LET call  == a.calls[1]
           found == ApiResource(store, call.args.public_id, call.args.options)
       IN  /\ err \in ApiFaults
                      \cup (IF found = {} THEN {NotFound(call.args.public_id)} ELSE {})
           /\ Respond(a, Settled(a, "done", "rejected", err,
                                 Present(call.args.public_id)),
                      DeleteErrorResponse(err))
    /\ UNCHANGED <<store, generated, deletedOK>>

(***************************************************************************)
(* The store settles the destroy call; server.js:97-106.                   *)
(***************************************************************************)
DestroyResolved(a) ==
    /\ a \in Awaiting("destroy")
    /\ LET call == a.calls[2]
       IN  /\ store' = StoreAfterDestroy(store, call.args.public_id, call.args.options)
           /\ deletedOK' = deletedOK \cup { a.cloudinaryId }
           /\ Respond(a, Settled(a, "done", "resolved", [result |-> "ok"],
                                 Present(call.args.public_id)),
                      DeleteResponse)
    /\ UNCHANGED generated

DestroyRejected(a, err) ==
    /\ a \in Awaiting("destroy")
    /\ err \in UploaderRejections
    /\ Respond(a, Settled(a, "done", "rejected", err, FALSE),
               DeleteErrorResponse(err))
    /\ UNCHANGED <<store, generated, deletedOK>>

(***************************************************************************)
(* The store settles the image query; server.js:115-128 and 153-156.       *)
(***************************************************************************)
ImagesResolved(a, resources) ==
    /\ a \in Awaiting("images")
    /\ resources \in ApiResources(store, a.calls[1].args)
    /\ LET act == Settled(a, "videos", "resolved", [resources |-> resources], FALSE)
       IN  Resume(a, [act EXCEPT !.images = resources,
                                 !.calls = Append(@,
                                     Call("resources",
                                          ListOptions("video", MaxResults(act))))])
    /\ UNCHANGED <<store, generated, deletedOK>>

ImagesRejected(a, err) ==
    /\ a \in Awaiting("images")
    /\ err \in ApiFaults
    /\ Respond(a, Settled(a, "done", "rejected", err, FALSE), ErrorResponse(err))
    /\ UNCHANGED <<store, generated, deletedOK>>

(***************************************************************************)
(* The store settles the video query; server.js:123-156.                   *)
(***************************************************************************)
VideosResolved(a, resources) ==
    /\ a \in Awaiting("videos")
    /\ resources \in ApiResources(store, a.calls[2].args)
    /\ Respond(a, Settled(a, "done", "resolved", [resources |-> resources], FALSE),
               ListResponse(a.images, resources))
    /\ UNCHANGED <<store, generated, deletedOK>>

VideosRejected(a, err) ==
    /\ a \in Awaiting("videos")
    /\ err \in ApiFaults
    /\ Respond(a, Settled(a, "done", "rejected", err, FALSE), ErrorResponse(err))
    /\ UNCHANGED <<store, generated, deletedOK>>

(***************************************************************************)
(* The specification.                                                      *)
(***************************************************************************)
Next ==
    \/ \E origin \in Origins, req \in Requests : Receive(origin, req)
    \/ \E a \in Awaiting("upload") : UploadResolved(a)
    \/ \E a \in Awaiting("upload"), err \in UploaderRejections : UploadRejected(a, err)
    \/ \E a \in Awaiting("resource") : ResourceResolved(a)
    \/ \E a \in Awaiting("resource"),
          err \in ApiFaults \cup { NotFound(id) : id \in DeleteIds } :
           ResourceRejected(a, err)
    \/ \E a \in Awaiting("destroy") : DestroyResolved(a)
    \/ \E a \in Awaiting("destroy"), err \in UploaderRejections : DestroyRejected(a, err)
    \/ \E a \in Awaiting("images") :
           \E resources \in ApiResources(store, ListOptions("image", MaxResults(a))) :
               ImagesResolved(a, resources)
    \/ \E a \in Awaiting("images"), err \in ApiFaults : ImagesRejected(a, err)
    \/ \E a \in Awaiting("videos") :
           \E resources \in ApiResources(store, ListOptions("video", MaxResults(a))) :
               VideosResolved(a, resources)
    \/ \E a \in Awaiting("videos"), err \in ApiFaults : VideosRejected(a, err)

Spec == Init /\ [][Next]_vars

(***************************************************************************)
(* Properties.  `sent` holds every response in the state right after the   *)
(* step that wrote it, so a predicate on `sent` that holds in every        *)
(* reachable state holds of every response the service writes.             *)
(***************************************************************************)
\* the response of a route handler for the given route
Answered(route) == sent.handled /\ sent.act.route = route

\* the body is a JSON object with a non-empty `error` property
HasError(resp) ==
    /\ resp.contentType = "application/json"
    /\ "error" \in DOMAIN resp.body
    /\ resp.body.error \notin { "", Undefined }

\* the public ids of the entries of a files list
PublicIds(files) == { files[i].public_id : i \in 1 .. Len(files) }

\* the number of entries of a files list of one resource kind
CountOf(files, kind) ==
    Cardinality({ i \in 1 .. Len(files) : files[i].resource_type = kind })

RECURSIVE SizeSum(_, _)
\* the sum of the size fields of the first n entries of a files list
SizeSum(files, n) ==
    IF n = 0 THEN 0 ELSE SizeSum(files, n - 1) + files[n].size

\* C1: a POST /upload request without a file part that reaches its route
\* handler is answered with HTTP 400 and a non-empty `error`, and no call to
\* the store is issued for it: none is recorded when it is answered, and no
\* upload without a file is ever suspended at a store call.
C1_NoFileIs400 ==
    /\ (Answered("upload") /\ sent.act.file = Absent)
          => /\ sent.resp.status = 400
             /\ HasError(sent.resp)
             /\ sent.act.calls = << >>
    /\ \A a \in BagToSet(inflight) : a.route = "upload" => a.file # Absent

C1_Witness ==
    /\ Answered("upload")
    /\ sent.act.file = Absent
    /\ sent.resp.status = 400

\* C2: when a request is received, if its Origin header is non-empty and
\* not one of the four allow-listed origins, it is rejected before any route
\* handler logic runs (it is answered by the rejection alone: no handler
\* ran, no call to the store was issued for it); if the header is absent or
\* allow-listed, the request reaches its route handler (which has answered
\* it, or is suspended at its first call to the store).
C2_CorsGate ==
    received.route # "none"
       => IF /\ received.origin # ""
             /\ received.origin \notin { "https://jmandmj.vercel.app",
                                         "https://media-uploader-backend.vercel.app",
                                         "http://localhost:3001",
                                         "http://localhost:5173" }
          THEN /\ ~sent.handled
               /\ sent.act.route = received.route
               /\ sent.act.pc = "rejected"
               /\ sent.act.calls = << >>
               /\ sent.resp.status >= 400
          ELSE \/ /\ sent.handled
                  /\ sent.act.route = received.route
                  /\ sent.resp.status \in { 200, 400 }
               \/ /\ sent = Nothing
                  /\ \E a \in BagToSet(inflight) :
                        /\ a.route = received.route
                        /\ Len(a.calls) = 1
                        /\ a.calls[1].outcome = "pending"

C2_Witness ==
    /\ received.origin = "https://evil.example"
    /\ ~sent.handled
    /\ sent.act.pc = "rejected"
    /\ sent.act.route = "upload"
    /\ sent.act.file # Absent
    /\ sent.resp.status = 500

\* C3 as stated: once a DELETE for an identifier (which an upload returned)
\* has been answered with success, no GET /files response written afterwards
\* contains an entry with that public_id.
C3_Original ==
    (Answered("list") /\ sent.resp.status = 200)
       => \A id \in sent.deleted : id \notin PublicIds(sent.resp.body.files)

\* C3 as amended: for an identifier returned by a successful upload and
\* generated for no other upload call, once a DELETE for it has been
\* answered with success, no GET /files request received afterwards is
\* answered with an entry with that public_id.  (A DELETE succeeds only for
\* an id the store holds an image for, and every asset with a tag of this
\* run was stored by an upload that returned its id.)
C3_Amended ==
    (Answered("list") /\ sent.resp.status = 200)
       => \A id \in sent.act.seen :
             generated[id[2]] = 1 => id \notin PublicIds(sent.resp.body.files)

C3_Witness ==
    /\ Answered("list")
    /\ sent.resp.status = 200
    /\ \E id \in sent.act.seen : generated[id[2]] = 1
    /\ Len(sent.resp.body.files) > 0

\* C4: an identifier an upload returned is reusable unmodified as the key
\* of a DELETE: when the store serves the lookup of a DELETE while it holds
\* an asset with exactly that public id, the lookup finds it (it fails only
\* when the call itself fails), and the destroy call that follows targets
\* the asset found.
C4_Reusable ==
    (Answered("delete") /\ sent.act.calls[1].present)
       => /\ sent.act.calls[1].outcome = "rejected"
               => sent.act.calls[1].value[1] \in ApiFaults
          /\ Len(sent.act.calls) = 2
               => /\ sent.act.calls[2].args.public_id = sent.act.cloudinaryId
                  /\ sent.act.calls[2].args.options.resource_type
                        = sent.act.calls[1].value[1].resource_type

\* C5: a successful GET /files with max_results = N (10 when absent) returns
\* at most N image entries and at most N video entries, hence at most 2N
\* entries, the image entries before the video entries.
C5_AtMostTwiceN ==
    (Answered("list") /\ sent.resp.status = 200)
       => LET N     == IF sent.act.max_results = Absent
                       THEN 10 ELSE sent.act.max_results[1]
              files == sent.resp.body.files
          IN  /\ Len(files) <= 2 * N
              /\ CountOf(files, "image") <= N
              /\ CountOf(files, "video") <= N
              /\ CountOf(files, "image") + CountOf(files, "video") = Len(files)
              /\ \A i, j \in 1 .. Len(files) :
                    (files[i].resource_type = "image"
                     /\ files[j].resource_type = "video") => i < j

\* the cap binds: two images and two videos are stored, max_results is 1
C5_Witness ==
    /\ Answered("list")
    /\ sent.resp.status = 200
    /\ sent.act.max_results = Some(1)
    /\ Len(sent.resp.body.files) = 2
    /\ Cardinality(Matching(store, ListOptions("image", 1))) = 2
    /\ Cardinality(Matching(store, ListOptions("video", 1))) = 2

\* C6: in a successful GET /files response, totalSize is the sum of the size
\* fields of the entries of files (0 for an empty list).
C6_TotalSize ==
    (Answered("list") /\ sent.resp.status = 200)
       => LET files == sent.resp.body.files
          IN  sent.resp.body.totalSize = SizeSum(files, Len(files))

C6_Witness ==
    /\ Answered("list")
    /\ sent.resp.status = 200
    /\ Len(sent.resp.body.files) = 3
    /\ sent.resp.body.totalSize = 14

\* C7: every failure response (status 400 or above) is a JSON object with
\* an `error` property.
C7_JsonError ==
    sent.resp.status >= 400
       => /\ sent.resp.contentType = "application/json"
          /\ "error" \in DOMAIN sent.resp.body

\* C8: a DELETE first issues the lookup call for its identifier; it issues
\* the destroy call only after the lookup resolved, for the same identifier
\* and the kind the lookup returned; it answers with the success message
\* exactly when both calls resolved, and otherwise with HTTP 500 and a body
\* with `error` and `details`.
C8_LookupThenDestroy ==
    Answered("delete")
       => LET calls == sent.act.calls
              both  == /\ Len(calls) = 2
                       /\ calls[1].outcome = "resolved"
                       /\ calls[2].outcome = "resolved"
          IN  /\ Len(calls) \in { 1, 2 }
              /\ calls[1].op = "resource"
              /\ calls[1].args.public_id = sent.act.cloudinaryId
              /\ Len(calls) = 2
                   => /\ calls[1].outcome = "resolved"
                      /\ calls[2].op = "destroy"
                      /\ calls[2].args.public_id = sent.act.cloudinaryId
                      /\ calls[2].args.options.resource_type
                            = calls[1].value[1].resource_type
              /\ both => sent.resp = DeleteResponse
              /\ ~both => /\ sent.resp.status = 500
                          /\ sent.resp.contentType = "application/json"
                          /\ DOMAIN sent.resp.body = { "error", "details" }

\* C9: GET /files has no partial success: when the image query or the video
\* query is rejected the response is HTTP 500 with a body that has `error`
\* and none of files, totalFiles, totalSize; the response is a success only
\* when both queries resolved.
C9_NoPartialSuccess ==
    Answered("list")
       => LET calls == sent.act.calls
              failed == \E i \in 1 .. Len(calls) : calls[i].outcome = "rejected"
          IN  /\ failed => /\ sent.resp.status = 500
                           /\ sent.resp.contentType = "application/json"
                           /\ DOMAIN sent.resp.body = { "error" }
              /\ sent.resp.status = 200
                   => /\ Len(calls) = 2
                      /\ \A i \in 1 .. 2 : calls[i].outcome = "resolved"

====
